---- MODULE Spec2Model ----
(***************************************************************************)
(* pressure-cooker: the CircularBuffer<T, N> library                        *)
(* (circular-buffer/src/lib.rs) and the graph State<N> with the main loop   *)
(* that drives it (src/main.rs).                                            *)
(*                                                                          *)
(* Five specifications share the module:                                    *)
(*   SpecBuf  one CircularBuffer under pushes and iterators,                *)
(*   SpecZip  two CircularBuffers under pushes and zip_with,                *)
(*   Spec     the main loop: get_temp, State.push (statement by statement), *)
(*            rendering,                                                    *)
(*   SpecTime State::push_time and State::time_delta,                       *)
(*   SpecScale the scale closure of State::push on chosen inputs.           *)
(*                                                                          *)
(* Rust indices are 0-based, TLA+ sequences 1-based: buffer[i] of the code  *)
(* is buffer[i + 1] here.  f32 temperatures are fixed-point integers in     *)
(* hundredths of a degree (0.05 is 5, 0.1 is 10, 20.0 is 2000); rounding    *)
(* error of f32 arithmetic is not modelled.                                 *)
(***************************************************************************)
EXTENDS Integers, Sequences, FiniteSets

VARIABLES
    \* ---- the library under test (SpecBuf, SpecZip)
    N,          \* const N of xs
    M,          \* const M of ys
    xs,         \* CircularBuffer<i32, N>
    ys,         \* CircularBuffer<i32, M>
    pushed,     \* history: every value pushed to xs, in push order
    panicked,   \* an index was out of bounds (Rust panics)
    iters,      \* the live CircularBufferIter values over xs
    npushes,    \* number of pushes to <<xs, ys>> so far
    zip,        \* history: the last zip_with call, if no push followed it
    observed,   \* what head() and last() returned, if no push followed
    compacted,  \* history: the numbers of the pushes to xs that ran shift_start
    \* ---- the program (Spec)
    past_temperatures, past_points, t_low, t_high,   \* State<N>
    pc,         \* position of the main thread
    temp, dirty, dropped, was_full, may_drop_bound_temp, iter, t0, \* locals of State::push
    temperatures,   \* the Vec returned by get_temp
    acq,        \* history: what happened in this cycle's acquisition
    pre,        \* history: the bounds and the points when the current State::push began
    cycles,     \* history: number of loop cycles begun
    \* ---- State::times (SpecTime)
    times,      \* State::times, a CircularBuffer<u128, 2>
    now,        \* EspSystemTime.now().as_millis()
    stamps,     \* history: every timestamp push_time recorded
    delta,      \* what time_delta() returned, if no push_time followed
    \* ---- the scale closure on its own (SpecScale)
    sc          \* the bounds, two temperatures and, once applied, their rows

libVars == <<N, M, xs, ys, pushed, panicked, iters, npushes, zip, observed, compacted>>
stateVars == <<past_temperatures, past_points, t_low, t_high>>
localVars == <<temp, dirty, dropped, was_full, may_drop_bound_temp, iter, t0>>
mainVars == <<pc, temperatures, acq, pre, cycles>>
extraVars == <<times, now, stamps, delta, sc>>
vars == <<libVars, stateVars, localVars, mainVars, extraVars>>

\* ------------------------------------------------------------------ bounds
MaxN == 2           \* capacities 1..MaxN in SpecBuf and SpecZip
MaxPushes == 6      \* pushes to xs in SpecBuf
MaxZipPushes == 6   \* pushes to xs and ys together in SpecZip
StateN == 2         \* the N of State<N> (main uses 128 - W_TEXT)
MaxCycles == 5      \* loop cycles of main

Vals == {1, 2}      \* values pushed to xs and ys
Min(a, b) == IF a < b THEN a ELSE b

\* Option<T>
None == <<>>
Some(v) == <<v>>

\* ------------------------------------------------- CircularBuffer<T, N>
new(n, default) ==
    [buffer |-> [i \in 1..(2 * n) |-> default], start |-> 0, size |-> 0]

is_full(self, n) == self.size = n

end(self) == self.start + self.size

\* an index of the 2N backing array that Rust accepts
InBounds(self, i) == i >= 0 /\ i < Len(self.buffer)

\* faulty variant of last: reads the first slot, whatever start is
last_ignores_start(self) ==
    IF self.size = 0 THEN None ELSE Some(self.buffer[1])

last(self) ==
    IF self.size = 0 THEN None ELSE Some(self.buffer[self.start + 1])

head(self) ==
    IF self.size = 0 THEN None ELSE Some(self.buffer[(end(self) - 1) + 1])

\* <[T]>::rotate_left(k): the element at k becomes the first
rotate_left(s, k) ==
    [i \in 1..Len(s) |-> s[((i - 1 + k) % Len(s)) + 1]]

\* faulty variant of shift_start: resets start without moving the elements
shift_start_no_rotate(self) == [self EXCEPT !.start = 0]

shift_start(self) ==
    [self EXCEPT !.buffer = rotate_left(self.buffer, self.start), !.start = 0]

\* faulty variant of push: compacts one push too late (> instead of >=)
push_late_compaction(self, value, n) ==
    LET b1 == [self EXCEPT !.buffer[end(self) + 1] = value]
        b2 == IF b1.size = n THEN [b1 EXCEPT !.start = @ + 1] ELSE b1
        b3 == IF b2.size < n THEN [b2 EXCEPT !.size = @ + 1] ELSE b2
    IN  IF b3.start + b3.size > 2 * n THEN shift_start(b3) ELSE b3

\* faulty variant of the condition of line 64: > instead of >=
push_compacts_late(self, n) ==
    LET start1 == IF self.size = n THEN self.start + 1 ELSE self.start
        size1 == IF self.size < n THEN self.size + 1 ELSE self.size
    IN  start1 + size1 > 2 * n

\* whether push runs shift_start: the condition of line 64 on the start and
\* size that lines 58-63 leave
push_compacts(self, n) ==
    LET start1 == IF self.size = n THEN self.start + 1 ELSE self.start
        size1 == IF self.size < n THEN self.size + 1 ELSE self.size
    IN  start1 + size1 >= 2 * n

\* push, given that the write at end() is in bounds
push(self, value, n) ==
    LET b1 == [self EXCEPT !.buffer[end(self) + 1] = value]
        b2 == IF b1.size = n THEN [b1 EXCEPT !.start = @ + 1] ELSE b1
        b3 == IF b2.size < n THEN [b2 EXCEPT !.size = @ + 1] ELSE b2
    IN  IF push_compacts(self, n) THEN shift_start(b3) ELSE b3

as_slice(self) == SubSeq(self.buffer, self.start + 1, end(self))

\* faulty variant of next: indexes the backing array without the start offset
next_ignores_start(self, index) ==
    IF self.size = 0 \/ index >= self.size
    THEN [item |-> None, index |-> index]
    ELSE [item |-> Some(self.buffer[index + 1]), index |-> index + 1]

\* CircularBufferIter::next on an iterator at `index`: the item and the new index
next(self, index) ==
    IF self.size = 0 \/ index >= self.size
    THEN [item |-> None, index |-> index]
    ELSE [item |-> Some(self.buffer[(self.start + index) + 1]), index |-> index + 1]

\* ------------------------------------------------- State<N>: arithmetic
W_TEXT == 32
Eps == 10           \* 0.1: an evicted value this close to a bound forces a recompute
Seed == 5           \* 0.05: half the width of the interval a recompute starts from
I32Max == 2147483647
I32Min == (-I32Max) - 1

Abs(a) == IF a < 0 THEN -a ELSE a

\* n / d rounded toward zero, as `as i32` rounds; d > 0
TruncDiv(n, d) == IF n >= 0 THEN n \div d ELSE -((-n) \div d)

\* faulty variant of scale: not inverted, higher temperatures get higher rows
scale_upright(x, lo, hi) ==
    LET d == hi - lo
        n == d + 30 * (x - lo)
    IN  IF d > 0 THEN TruncDiv(n, d)
        ELSE IF d < 0 THEN TruncDiv(-n, -d)
        ELSE IF x > lo THEN I32Max
        ELSE IF x < lo THEN I32Min
        ELSE 0

\* the closure `scale` of State::push under the bounds lo, hi:
\* (31.0 - 30.0 * (x - lo) / (hi - lo)) as i32.  With hi = lo the f32 division
\* gives an infinity or NaN, which `as i32` saturates or turns into 0.
scale(x, lo, hi) ==
    LET d == hi - lo
        n == 31 * d - 30 * (x - lo)
    IN  IF d > 0 THEN TruncDiv(n, d)
        ELSE IF d < 0 THEN TruncDiv(-n, -d)
        ELSE IF x > lo THEN I32Min
        ELSE IF x < lo THEN I32Max
        ELSE 0

\* the closures handed to zip_with: f(&mut x, &y) leaves x as ApplyF(f, x, y)
Closures == {[name |-> "noop"], [name |-> "add"], [name |-> "copy"]}
ApplyF(f, x, y) ==
    CASE f.name = "noop" -> x                        \* |_, _| ()
      [] f.name = "add" -> (x + y) % 4     \* |x, y| *x = (*x + *y) % 4
      [] f.name = "copy" -> y                        \* |x, y| *x = *y
      [] f.name = "rescale" ->                       \* the closure of State::push
            [x |-> x.x + 1,
             y |-> IF f.dirty THEN scale(y, f.t_low, f.t_high) ELSE x.y]

\* iterations i..count-1 of the loop of zip_with; calls is the log of f's arguments
RECURSIVE zip_loop(_, _, _, _, _, _)
zip_loop(buffer, self, other, f, i, calls) ==
    IF i >= Min(self.size, other.size)
    THEN [buffer |-> buffer, calls |-> calls, oob |-> FALSE]
    ELSE LET i1 == self.start + i
             i2 == other.start + i
         IN  IF ~(InBounds(self, i1) /\ InBounds(other, i2))
             THEN [buffer |-> buffer, calls |-> calls, oob |-> TRUE]
             ELSE zip_loop([buffer EXCEPT ![i1 + 1] = ApplyF(f, buffer[i1 + 1], other.buffer[i2 + 1])],
                           self, other, f, i + 1,
                           Append(calls, <<buffer[i1 + 1], other.buffer[i2 + 1]>>))

\* faulty variant of zip_with: pairs by backing index of self, not by age
RECURSIVE zip_loop_same_index(_, _, _, _, _, _)
zip_loop_same_index(buffer, self, other, f, i, calls) ==
    IF i >= Min(self.size, other.size)
    THEN [buffer |-> buffer, calls |-> calls, oob |-> FALSE]
    ELSE LET i1 == self.start + i
             i2 == self.start + i
         IN  IF ~(InBounds(self, i1) /\ InBounds(other, i2))
             THEN [buffer |-> buffer, calls |-> calls, oob |-> TRUE]
             ELSE zip_loop_same_index(
                      [buffer EXCEPT ![i1 + 1] = ApplyF(f, buffer[i1 + 1], other.buffer[i2 + 1])],
                      self, other, f, i + 1,
                      Append(calls, <<buffer[i1 + 1], other.buffer[i2 + 1]>>))

zip_with_same_index(self, other, f) ==
    zip_loop_same_index(self.buffer, self, other, f, 0, <<>>)

zip_with(self, other, f) == zip_loop(self.buffer, self, other, f, 0, <<>>)

\* ------------------------------------------------ SpecBuf: one buffer
Iters == {1, 2}
DeadIter == [live |-> FALSE, index |-> 0, out |-> <<>>]
NotObserved == <<>>

LibInit(n, m) ==
    /\ N = n
    /\ M = m
    /\ xs = new(n, 0)
    /\ ys = new(m, 0)
    /\ pushed = <<>>
    /\ panicked = FALSE
    /\ iters = [k \in Iters |-> DeadIter]
    /\ npushes = <<0, 0>>
    /\ zip = <<>>
    /\ observed = NotObserved
    /\ compacted = <<>>

NotCalled == <<>>
NotApplied == <<>>

\* State::new(), before the first loop cycle
ProgInit ==
    /\ past_temperatures = new(StateN, 0)
    /\ past_points = new(StateN, [x |-> 0, y |-> 0])
    /\ t_low = 2000
    /\ t_high = 2500
    /\ pc = "get_temp"
    /\ temp = 0
    /\ dirty = FALSE
    /\ dropped = None
    /\ was_full = FALSE
    /\ may_drop_bound_temp = FALSE
    /\ iter = 0
    /\ t0 = 0
    /\ temperatures = <<>>
    /\ acq = "none"
    /\ pre = [t_low |-> 2000, t_high |-> 2500, points |-> <<>>]
    /\ cycles = 0
    /\ times = new(2, 0)
    /\ now = 0
    /\ stamps = <<>>
    /\ delta = NotCalled

progVars == <<stateVars, localVars, mainVars, extraVars>>

\* buffer.push(v): a push needs &mut, so no iterator borrows the buffer after it
Push(v) ==
    /\ ~panicked
    /\ Len(pushed) < MaxPushes
    /\ IF InBounds(xs, end(xs))
       THEN /\ xs' = push(xs, v, N)
            /\ pushed' = Append(pushed, v)
            /\ compacted' = IF push_compacts(xs, N)
                            THEN Append(compacted, Len(pushed) + 1)
                            ELSE compacted
            /\ UNCHANGED panicked
       ELSE /\ panicked' = TRUE
            /\ UNCHANGED <<xs, pushed, compacted>>
    /\ iters' = [k \in Iters |-> DeadIter]
    /\ observed' = NotObserved
    /\ UNCHANGED <<N, M, ys, npushes, zip, progVars>>

\* buffer.head() and buffer.last()
Observe ==
    /\ ~panicked
    /\ observed = NotObserved
    /\ IF xs.size = 0 \/ (InBounds(xs, xs.start) /\ InBounds(xs, end(xs) - 1))
       THEN /\ observed' = <<[head |-> head(xs), last |-> last(xs)]>>
            /\ UNCHANGED panicked
       ELSE /\ panicked' = TRUE
            /\ UNCHANGED observed
    /\ UNCHANGED <<N, M, compacted, xs, ys, pushed, iters, npushes, zip, progVars>>

\* let it_k = buffer.into_iter()
IntoIter(k) ==
    /\ ~panicked
    /\ iters' = [iters EXCEPT ![k] = [live |-> TRUE, index |-> 0, out |-> <<>>]]
    /\ UNCHANGED <<N, M, compacted, xs, ys, pushed, panicked, npushes, zip, observed, progVars>>

\* it_k.next(); out is the log of what it returned
IterNext(k) ==
    /\ ~panicked
    /\ iters[k].live
    /\ Len(iters[k].out) < xs.size + 2
    /\ LET r == next(xs, iters[k].index)
       IN  IF r.item = None \/ InBounds(xs, xs.start + iters[k].index)
           THEN /\ iters' = [iters EXCEPT ![k].index = r.index,
                                          ![k].out = Append(@, r.item)]
                /\ UNCHANGED panicked
           ELSE /\ panicked' = TRUE
                /\ UNCHANGED iters
    /\ UNCHANGED <<N, M, compacted, xs, ys, pushed, npushes, zip, observed, progVars>>

InitBuf == (\E n \in 1..MaxN : LibInit(n, 1)) /\ ProgInit /\ sc = NotApplied

NextBuf ==
    \/ \E v \in Vals : Push(v)
    \/ Observe
    \/ \E k \in Iters : IntoIter(k)
    \/ \E k \in Iters : IterNext(k)

SpecBuf == InitBuf /\ [][NextBuf]_vars

\* ------------------------------------------- SpecZip: two buffers, zip_with
PushXs(v) ==
    /\ ~panicked
    /\ npushes[1] + npushes[2] < MaxZipPushes
    /\ IF InBounds(xs, end(xs))
       THEN xs' = push(xs, v, N) /\ UNCHANGED panicked
       ELSE panicked' = TRUE /\ UNCHANGED xs
    /\ npushes' = [npushes EXCEPT ![1] = @ + 1]
    /\ zip' = <<>>
    /\ UNCHANGED <<N, M, compacted, ys, pushed, iters, observed, progVars>>

PushYs(v) ==
    /\ ~panicked
    /\ npushes[1] + npushes[2] < MaxZipPushes
    /\ IF InBounds(ys, end(ys))
       THEN ys' = push(ys, v, M) /\ UNCHANGED panicked
       ELSE panicked' = TRUE /\ UNCHANGED ys
    /\ npushes' = [npushes EXCEPT ![2] = @ + 1]
    /\ zip' = <<>>
    /\ UNCHANGED <<N, M, compacted, xs, pushed, iters, observed, progVars>>

\* xs.zip_with(&ys, f)
ZipWith(f) ==
    /\ ~panicked
    /\ LET r == zip_with(xs, ys, f)
       IN  /\ xs' = [xs EXCEPT !.buffer = r.buffer]
           /\ panicked' = r.oob
           /\ zip' = <<[f |-> f, xs |-> xs, ys |-> ys, calls |-> r.calls]>>
    /\ UNCHANGED <<N, M, compacted, ys, pushed, iters, npushes, observed, progVars>>

InitZip == (\E n \in 1..MaxN : \E m \in 1..MaxN : LibInit(n, m)) /\ ProgInit /\ sc = NotApplied

NextZip ==
    \/ \E v \in Vals : PushXs(v)
    \/ \E v \in Vals : PushYs(v)
    \/ \E f \in Closures : ZipWith(f)

SpecZip == InitZip /\ [][NextZip]_vars

\* ------------------------------------------------ Spec: the main loop
\* temperatures a sensor can report (hundredths of a degree)
Temps == {1995, 2000, 2200, 3000}

\* what one entry of the bus search comes to in the closure of mk_get_temp:
\* the search itself errs (dropped by partition), Ds18b20::new, the start of the
\* measurement or the read errs (dropped by filter_map), or a temperature is read.
\* The entries are taken in address order, the order sort_by_key leaves them in.
Ok(v) == <<"Ok", v>>
Err(e) == <<"Err", e>>
Failures == {Err(e) : e \in {"search", "init", "start", "read"}}
Outcomes == Failures \cup {Ok(t) : t \in Temps}
Devices == {<<>>} \cup {<<a>> : a \in Outcomes} \cup {<<a, b>> : a, b \in Outcomes}

\* .filter_map(|x| x.ok()).collect() over the entries
RECURSIVE reads(_)
reads(devs) ==
    IF devs = <<>> THEN <<>>
    ELSE IF devs[1][1] = "Ok" THEN <<devs[1][2]>> \o reads(Tail(devs))
    ELSE reads(Tail(devs))

PushPcs == {"push_insert", "expand_low", "expand_high", "check", "seed_low",
            "seed_high", "fold", "rescale", "append"}

\* let temperatures = get_temp()?;  the closure returns Ok(reads) in every case
GetTemp ==
    /\ pc = "get_temp"
    /\ cycles < MaxCycles
    /\ \E devs \in Devices :
          /\ temperatures' = reads(devs)
          /\ acq' = IF \E i \in 1..Len(devs) : devs[i][1] = "Err"
                    THEN "failed" ELSE "clean"
    /\ cycles' = cycles + 1
    /\ pc' = "index"
    /\ UNCHANGED <<libVars, extraVars, stateVars, localVars, pre>>

\* let temperature = temperatures[0]; ...; state.push(temperature) is entered
Index ==
    /\ pc = "index"
    /\ IF temperatures = <<>>
       THEN /\ pc' = "panicked"
            /\ UNCHANGED <<temp, pre>>
       ELSE /\ temp' = temperatures[1]
            /\ pre' = [t_low |-> t_low, t_high |-> t_high,
                       points |-> as_slice(past_points)]
            /\ pc' = "push_insert"
    /\ temperatures' = <<>>
    /\ UNCHANGED <<libVars, extraVars, stateVars, dirty, dropped, was_full,
                   may_drop_bound_temp, iter, t0, acq, cycles>>

\* State::push, lines 227-230
PushInsert ==
    /\ pc = "push_insert"
    /\ dirty' = FALSE
    /\ dropped' = last(past_temperatures)
    /\ was_full' = is_full(past_temperatures, StateN)
    /\ IF InBounds(past_temperatures, end(past_temperatures))
       THEN /\ past_temperatures' = push(past_temperatures, temp, StateN)
            /\ pc' = "expand_low"
       ELSE /\ pc' = "panicked"
            /\ UNCHANGED past_temperatures
    /\ UNCHANGED <<libVars, extraVars, past_points, t_low, t_high, temp,
                   may_drop_bound_temp, iter, t0, temperatures, acq, pre, cycles>>

\* lines 233-236
ExpandLow ==
    /\ pc = "expand_low"
    /\ IF temp < t_low
       THEN t_low' = temp /\ dirty' = TRUE
       ELSE UNCHANGED <<t_low, dirty>>
    /\ pc' = "expand_high"
    /\ UNCHANGED <<libVars, extraVars, past_temperatures, past_points, t_high, temp, dropped,
                   was_full, may_drop_bound_temp, iter, t0, temperatures, acq, pre, cycles>>

\* variant of lines 237-240 that compares against t_high
ExpandHigh_compares_high ==
    /\ pc = "expand_high"
    /\ IF temp > t_high
       THEN t_high' = temp /\ dirty' = TRUE
       ELSE UNCHANGED <<t_high, dirty>>
    /\ pc' = "check"
    /\ UNCHANGED <<libVars, extraVars, past_temperatures, past_points, t_low, temp, dropped,
                   was_full, may_drop_bound_temp, iter, t0, temperatures, acq, pre, cycles>>

\* lines 237-240: the comparison is against t_low
ExpandHigh ==
    /\ pc = "expand_high"
    /\ IF temp > t_low
       THEN t_high' = temp /\ dirty' = TRUE
       ELSE UNCHANGED <<t_high, dirty>>
    /\ pc' = "check"
    /\ UNCHANGED <<libVars, extraVars, past_temperatures, past_points, t_low, temp, dropped,
                   was_full, may_drop_bound_temp, iter, t0, temperatures, acq, pre, cycles>>

\* lines 242-248: may_drop_bound_temp, and the first element of the recompute
Check ==
    /\ pc = "check"
    /\ LET may == was_full /\ \E x \in {t_low, t_high} :
                      dropped # None /\ Abs(x - dropped[1]) < Eps
           r == next(past_temperatures, 0)
       IN  /\ may_drop_bound_temp' = may
           /\ IF may /\ r.item # None
              THEN /\ iter' = r.index
                   /\ t0' = r.item[1]
                   /\ pc' = "seed_low"
              ELSE /\ pc' = "rescale"
                   /\ UNCHANGED <<iter, t0>>
    /\ UNCHANGED <<libVars, extraVars, stateVars, temp, dirty, dropped, was_full,
                   temperatures, acq, pre, cycles>>

\* line 249
SeedLow ==
    /\ pc = "seed_low"
    /\ t_low' = t0 - Seed
    /\ pc' = "seed_high"
    /\ UNCHANGED <<libVars, extraVars, past_temperatures, past_points, t_high, localVars,
                   temperatures, acq, pre, cycles>>

\* line 250
SeedHigh ==
    /\ pc = "seed_high"
    /\ t_high' = t0 + Seed
    /\ pc' = "fold"
    /\ UNCHANGED <<libVars, extraVars, past_temperatures, past_points, t_low, localVars,
                   temperatures, acq, pre, cycles>>

\* faulty variant of lines 251-258: the loop folds the minimum only
Fold_only_low ==
    /\ pc = "fold"
    /\ LET r == next(past_temperatures, iter)
       IN  IF r.item = None
           THEN /\ pc' = "rescale"
                /\ UNCHANGED <<t_low, iter>>
           ELSE /\ t_low' = IF r.item[1] < t_low THEN r.item[1] ELSE t_low
                /\ iter' = r.index
                /\ pc' = "fold"
    /\ UNCHANGED <<libVars, extraVars, past_temperatures, past_points, t_high, temp, dirty,
                   dropped, was_full, may_drop_bound_temp, t0, temperatures, acq, pre, cycles>>

\* lines 251-258: one iteration of `for t in iter`, or its end
Fold ==
    /\ pc = "fold"
    /\ LET r == next(past_temperatures, iter)
       IN  IF r.item = None
           THEN /\ pc' = "rescale"
                /\ UNCHANGED <<t_low, t_high, iter>>
           ELSE LET t == r.item[1]
                    low1 == IF t < t_low THEN t ELSE t_low
                IN  /\ t_low' = low1
                    /\ t_high' = IF t > t_high THEN t ELSE t_high
                    /\ iter' = r.index
                    /\ pc' = "fold"
    /\ UNCHANGED <<libVars, extraVars, past_temperatures, past_points, temp, dirty, dropped,
                   was_full, may_drop_bound_temp, t0, temperatures, acq, pre, cycles>>

\* faulty variant of lines 263-271: y is recomputed whether dirty or not
Rescale_always_recomputes ==
    /\ pc = "rescale"
    /\ LET f == [name |-> "rescale", dirty |-> TRUE, t_low |-> t_low, t_high |-> t_high]
           r == zip_with(past_points, past_temperatures, f)
       IN  /\ past_points' = [past_points EXCEPT !.buffer = r.buffer]
           /\ pc' = IF r.oob THEN "panicked" ELSE "append"
    /\ UNCHANGED <<libVars, extraVars, past_temperatures, t_low, t_high, localVars,
                   temperatures, acq, pre, cycles>>

\* faulty variant of lines 263-271: x of the existing points is not shifted
Rescale_no_shift ==
    /\ pc = "rescale"
    /\ LET f == [name |-> "rescale", dirty |-> dirty, t_low |-> t_low, t_high |-> t_high]
           r == zip_with(past_points, past_temperatures, f)
       IN  /\ past_points' =
                 [past_points EXCEPT !.buffer =
                     [i \in 1..Len(r.buffer) |->
                         [x |-> past_points.buffer[i].x, y |-> r.buffer[i].y]]]
           /\ pc' = IF r.oob THEN "panicked" ELSE "append"
    /\ UNCHANGED <<libVars, extraVars, past_temperatures, t_low, t_high, localVars,
                   temperatures, acq, pre, cycles>>

\* lines 263-271: the rescale pass
Rescale ==
    /\ pc = "rescale"
    /\ LET f == [name |-> "rescale", dirty |-> dirty, t_low |-> t_low, t_high |-> t_high]
           r == zip_with(past_points, past_temperatures, f)
       IN  /\ past_points' = [past_points EXCEPT !.buffer = r.buffer]
           /\ pc' = IF r.oob THEN "panicked" ELSE "append"
    /\ UNCHANGED <<libVars, extraVars, past_temperatures, t_low, t_high, localVars,
                   temperatures, acq, pre, cycles>>

\* faulty variant of line 274: State::push returns without the newest point
AppendPoint_no_push ==
    /\ pc = "append"
    /\ pc' = "render"
    /\ UNCHANGED <<libVars, extraVars, stateVars, localVars, temperatures, acq, pre, cycles>>

\* line 274: the newest point; State::push returns
AppendPoint ==
    /\ pc = "append"
    /\ IF InBounds(past_points, end(past_points))
       THEN /\ past_points' = push(past_points,
                                   [x |-> W_TEXT, y |-> scale(temp, t_low, t_high)],
                                   StateN)
            /\ pc' = "render"
       ELSE /\ pc' = "panicked"
            /\ UNCHANGED past_points
    /\ UNCHANGED <<libVars, extraVars, past_temperatures, t_low, t_high, localVars,
                   temperatures, acq, pre, cycles>>

\* lines 154-185: the labels, the polyline and the flush each end main with an
\* error when the display fails; otherwise the loop waits and starts over.
\* The two push_time calls write only State::times, which nothing in this
\* specification reads; push_time and time_delta are the actions of SpecTime.
Render ==
    /\ pc = "render"
    /\ \E ok \in BOOLEAN : pc' = IF ok THEN "get_temp" ELSE "returned_err"
    /\ temp' = 0
    /\ dirty' = FALSE
    /\ dropped' = None
    /\ was_full' = FALSE
    /\ may_drop_bound_temp' = FALSE
    /\ iter' = 0
    /\ t0' = 0
    /\ acq' = "none"
    /\ UNCHANGED <<libVars, extraVars, stateVars, temperatures, pre, cycles>>

Init == LibInit(1, 1) /\ ProgInit /\ sc = NotApplied

Next ==
    \/ GetTemp
    \/ Index
    \/ PushInsert
    \/ ExpandLow
    \/ ExpandHigh
    \/ Check
    \/ SeedLow
    \/ SeedHigh
    \/ Fold
    \/ Rescale
    \/ AppendPoint
    \/ Render

Spec == Init /\ [][Next]_vars

\* ------------------------------------------------ properties of the library
\* the last k elements of s
LastK(s, k) == SubSeq(s, Len(s) - k + 1, Len(s))

\* C1 (SpecBuf): after k pushes into a new buffer of capacity N >= 1, as_slice()
\* has length min(N, k) and holds the last min(N, k) pushed values, oldest
\* first; this holds after pushes that compact as after those that do not.
C1_SliceIsWindow ==
    /\ Len(as_slice(xs)) = Min(N, Len(pushed))
    /\ as_slice(xs) = LastK(pushed, Min(N, Len(pushed)))

\* a full buffer of capacity 2 that has compacted (push 4) and been pushed to again
C1_Witness ==
    /\ N = 2
    /\ Len(pushed) = 5
    /\ xs.start = 1
    /\ pushed[4] # pushed[5]

\* C2 (SpecBuf): 0 <= size <= N and start + size < 2N between operations, and
\* no push, head, last or next indexes outside the 2N backing array.
C2_InBounds ==
    /\ ~panicked
    /\ 0 <= xs.size /\ xs.size <= N
    /\ 0 <= xs.start
    /\ xs.start + xs.size < 2 * N
    /\ Len(xs.buffer) = 2 * N

\* the active region ends at the last slot of the backing array
C2_Witness ==
    /\ N = 2
    /\ xs.size = N
    /\ xs.start + xs.size = 2 * N - 1

\* C4 (SpecBuf): head() and last() are None before the first push; afterwards
\* head() is the most recently pushed value and last() the oldest value of the
\* window, the first element of as_slice().
C4_HeadLast ==
    observed # NotObserved =>
        IF pushed = <<>>
        THEN observed[1].head = None /\ observed[1].last = None
        ELSE /\ observed[1].head = Some(pushed[Len(pushed)])
             /\ observed[1].last = Some(pushed[Len(pushed) - Min(N, Len(pushed)) + 1])
             /\ observed[1].last = Some(as_slice(xs)[1])

\* head() and last() called right after the push that evicted and compacted
C4_Witness ==
    /\ observed # NotObserved
    /\ N = 2
    /\ Len(pushed) = 2 * N
    /\ xs.start = 0
    /\ observed[1].head # observed[1].last

\* what the first j calls of next() return on a buffer with the slice s
ExpectedOut(s, j) == [i \in 1..j |-> IF i <= Len(s) THEN Some(s[i]) ELSE None]

\* C5 (SpecBuf): every iterator yields the elements of as_slice() oldest first
\* and then None on every later call, whatever another iterator has done.
C5_IterYieldsSlice ==
    \A k \in Iters :
        iters[k].live => iters[k].out = ExpectedOut(as_slice(xs), Len(iters[k].out))

\* one iterator exhausted and asked twice more, a second one begun later and
\* only at its first element, on a buffer whose start is not 0
C5_Witness ==
    /\ xs.size = 2
    /\ xs.start > 0
    /\ iters[1].live /\ Len(iters[1].out) = xs.size + 2
    /\ iters[2].live /\ Len(iters[2].out) = 1
    /\ as_slice(xs)[1] # as_slice(xs)[2]

\* C3 (SpecZip): zip_with calls f min(xs.size, ys.size) times, the i-th call on
\* the i-th oldest element of xs and of ys; the call's result lands in the i-th
\* oldest element of xs; ys, the elements of xs of rank >= min, and start and
\* size of both are unchanged; a no-op f changes nothing.
C3_ZipByAge ==
    zip # <<>> =>
        LET z == zip[1]
            m == Min(z.xs.size, z.ys.size)
        IN  /\ ~panicked
            /\ Len(z.calls) = m
            /\ \A i \in 1..m :
                  /\ z.calls[i] = <<as_slice(z.xs)[i], as_slice(z.ys)[i]>>
                  /\ as_slice(xs)[i] = ApplyF(z.f, as_slice(z.xs)[i], as_slice(z.ys)[i])
            /\ ys = z.ys
            /\ xs.start = z.xs.start /\ xs.size = z.xs.size
            /\ \A i \in (m + 1)..xs.size : as_slice(xs)[i] = as_slice(z.xs)[i]
            /\ z.f.name = "noop" => xs = z.xs

\* two elements combined, the buffers at different start offsets
C3_Witness ==
    /\ zip # <<>>
    /\ zip[1].f.name = "add"
    /\ zip[1].xs.start # zip[1].ys.start
    /\ Min(zip[1].xs.size, zip[1].ys.size) = 2
    /\ as_slice(xs) # as_slice(zip[1].xs)

\* C16 (SpecBuf): starting from an empty buffer, shift_start runs on push 2N and
\* on every N-th push after it and on no other push; start is 0 after each
\* compaction and grows by 1 with every other push to a full buffer.
C16_CompactionEveryNth ==
    LET k == Len(pushed)
    IN  /\ {compacted[i] : i \in 1..Len(compacted)} =
               {j \in 1..k : j >= 2 * N /\ j % N = 0}
        /\ (compacted # <<>> /\ compacted[Len(compacted)] = k) => xs.start = 0
        /\ xs.start = IF k < N THEN 0 ELSE k % N

\* a buffer of capacity 2 after six pushes: compactions on pushes 4 and 6
C16_Witness ==
    /\ N = 2
    /\ Len(pushed) = 6
    /\ compacted = <<4, 6>>
    /\ xs.start = 0

\* ------------------------------------------------ properties of the program
\* the main thread is not inside State::push
BetweenPushes == pc \notin PushPcs

\* State::push calls completed so far
CompletedPushes == IF pc \in {"index", "panicked"} THEN cycles - 1 ELSE cycles

\* C6 (Spec): after State::new() and after every completed State::push, every
\* temperature of past_temperatures lies within [t_low, t_high].
C6_WindowWithinBounds ==
    BetweenPushes =>
        \A i \in 1..past_temperatures.size :
            /\ t_low <= as_slice(past_temperatures)[i]
            /\ as_slice(past_temperatures)[i] <= t_high

\* C7 (Spec): a State::push in which the full recompute does not trigger never
\* tightens a bound: t_low does not rise and t_high does not fall.
C7_NoTightening ==
    (pc = "render" /\ ~may_drop_bound_temp) =>
        /\ t_low <= pre.t_low
        /\ t_high >= pre.t_high

\* C8 (Spec): t_low <= t_high in every state, inside State::push as between
\* pushes, and t_low < t_high wherever the scale closure is evaluated.
C8_BoundsOrdered ==
    /\ t_low <= t_high
    /\ pc \in {"rescale", "append"} => t_low < t_high

\* C9 (Spec): between State::push calls past_points and past_temperatures hold
\* the same number of elements, min(N, k) after k pushes, at the same offset:
\* every State::push pushes once to each.
C9_Lockstep ==
    BetweenPushes =>
        /\ past_points.size = past_temperatures.size
        /\ past_points.size = Min(StateN, CompletedPushes)
        /\ past_points.start = past_temperatures.start

\* both windows full and past their first eviction
C9_Witness ==
    /\ pc = "render"
    /\ cycles > StateN
    /\ past_points.size = StateN
    /\ past_temperatures.size = StateN
    /\ past_temperatures.start = 1

\* C10 (Spec): a cycle whose acquisition failed (an entry of the search, a
\* measurement start or a read erred, or no reading came back) never reaches
\* State::push and never panics: main returns the error instead.
C10_FailurePropagates ==
    /\ pc # "panicked"
    /\ acq = "failed" => pc \notin PushPcs

\* C12 (Spec): after a dirty State::push every point carries the row of the
\* temperature of its own age under the final bounds:
\* past_points[i].y = scale(past_temperatures[i]) for every index i, also when
\* the window was full before the push.
C12_RescaleByAge ==
    (pc = "render" /\ dirty) =>
        \A i \in 1..past_points.size :
            as_slice(past_points)[i].y =
                scale(as_slice(past_temperatures)[i], t_low, t_high)

\* C13 (Spec): a State::push whose full recompute runs is dirty, so that its
\* rescale pass recomputes the row of every existing point.
C13_RecomputeIsDirty ==
    (pc \in {"rescale", "append", "render"} /\ may_drop_bound_temp) => dirty

\* C14 as stated (Spec): a State::push in which the full recompute does not
\* trigger never raises t_high.
C14_HighNeverRises ==
    (pc = "render" /\ ~may_drop_bound_temp) => t_high <= pre.t_high

\* C14 as the code has it (Spec): in a State::push in which the full recompute
\* does not trigger, t_high becomes temp whenever temp is above the t_low the
\* push began with, and is otherwise unchanged; so the cheap path raises t_high
\* whenever temp exceeds it.
C14_HighFollowsTemp ==
    (pc = "render" /\ ~may_drop_bound_temp) =>
        t_high = IF temp > pre.t_low THEN temp ELSE pre.t_high

\* a push without recompute that raised t_high
C14_Witness ==
    /\ pc = "render"
    /\ ~may_drop_bound_temp
    /\ t_high > pre.t_high
    /\ t_high = temp

Max(a, b) == IF a > b THEN a ELSE b
MinOf(s) == CHOOSE m \in {s[i] : i \in 1..Len(s)} : \A i \in 1..Len(s) : m <= s[i]
MaxOf(s) == CHOOSE m \in {s[i] : i \in 1..Len(s)} : \A i \in 1..Len(s) : m >= s[i]

\* C15 (Spec): after a State::push whose full recompute ran, with w the window
\* after the insertion (its newest element is temp) and w[1] its oldest element,
\* t_low = min(w[1] - 0.05, min w) and t_high = max(w[1] + 0.05, max w), so
\* every temperature of w is within [t_low, t_high].
C15_RecomputedBounds ==
    (pc = "render" /\ may_drop_bound_temp) =>
        LET w == as_slice(past_temperatures)
        IN  /\ Len(w) = StateN
            /\ w[Len(w)] = temp
            /\ t_low = Min(w[1] - Seed, MinOf(w))
            /\ t_high = Max(w[1] + Seed, MaxOf(w))
            /\ \A i \in 1..Len(w) : t_low <= w[i] /\ w[i] <= t_high

\* a recompute whose lower bound comes from a later element and whose upper
\* bound comes from the widened oldest element
C15_Witness ==
    /\ pc = "render"
    /\ may_drop_bound_temp
    /\ t_low = temp
    /\ t_low < as_slice(past_temperatures)[1] - Seed
    /\ t_high = as_slice(past_temperatures)[1] + Seed

\* C17 (Spec): the rescale pass of a State::push that is not dirty adds exactly
\* 1 to x of every point that existed when the push began and leaves its y as
\* it was.
C17_CleanPushShiftsOnly ==
    (pc = "append" /\ ~dirty) =>
        as_slice(past_points) =
            [i \in 1..Len(pre.points) |->
                [x |-> pre.points[i].x + 1, y |-> pre.points[i].y]]

\* a clean rescale pass over a full window whose bounds the recompute has moved
C17_Witness ==
    /\ pc = "append"
    /\ ~dirty
    /\ Len(pre.points) = StateN
    /\ t_low # pre.t_low

\* C19 (Spec): between State::push calls x encodes age: with c points, the
\* point at index i (0-based, oldest first) has x = W_TEXT + (c - 1 - i); the
\* newest is at W_TEXT and every x is within [W_TEXT, W_TEXT + N - 1].
C19_XEncodesAge ==
    BetweenPushes =>
        LET c == past_points.size
        IN  \A i \in 0..(c - 1) :
                /\ as_slice(past_points)[i + 1].x = W_TEXT + (c - 1 - i)
                /\ as_slice(past_points)[i + 1].x >= W_TEXT
                /\ as_slice(past_points)[i + 1].x <= W_TEXT + StateN - 1

\* a full window after an eviction
C19_Witness ==
    /\ pc = "render"
    /\ cycles > StateN
    /\ past_points.size = StateN
    /\ as_slice(past_points)[1].x = W_TEXT + StateN - 1
    /\ as_slice(past_points)[StateN].x = W_TEXT
MaxStamps == 4      \* push_time calls in SpecTime
Ticks == {0, 1, 3}  \* milliseconds the clock advances between two readings

\* faulty variant of time_delta: oldest minus newest
time_delta_swapped(self_times) ==
    IF head(self_times) = None THEN None
    ELSE IF last(self_times) = None THEN None
    ELSE Some(last(self_times)[1] - head(self_times)[1])

\* State::time_delta: Some(self.times.head()? - self.times.last()?)
time_delta(self_times) ==
    IF head(self_times) = None THEN None
    ELSE IF last(self_times) = None THEN None
    ELSE Some(head(self_times)[1] - last(self_times)[1])

\* State::push_time: self.times.push(EspSystemTime.now().as_millis())
PushTime ==
    /\ Len(stamps) < MaxStamps
    /\ \E d \in Ticks :
          /\ now' = now + d
          /\ times' = push(times, now + d, 2)
          /\ stamps' = Append(stamps, now + d)
    /\ delta' = NotCalled
    /\ UNCHANGED <<libVars, stateVars, localVars, mainVars, sc>>

\* state.time_delta()
TimeDelta ==
    /\ delta = NotCalled
    /\ delta' = <<time_delta(times)>>
    /\ UNCHANGED <<libVars, stateVars, localVars, mainVars, times, now, stamps, sc>>

InitTime == LibInit(1, 1) /\ ProgInit /\ sc = NotApplied

NextTime ==
    \/ PushTime
    \/ TimeDelta

SpecTime == InitTime /\ [][NextTime]_vars

\* C11 as stated (SpecTime): time_delta() is None with zero or one recorded
\* timestamp and newest minus oldest of the window afterwards.
C11_NoneUntilTwo ==
    delta # NotCalled =>
        IF Len(stamps) < 2
        THEN delta[1] = None
        ELSE delta[1] = Some(stamps[Len(stamps)] - stamps[Len(stamps) - 1])

\* C11 as the code has it (SpecTime): time_delta() is None only before the
\* first push_time; with one timestamp head() and last() are the same element
\* and it is Some(0); from two timestamps on it is the newest minus the one
\* before it, the two that the 2-slot window holds.
C11_NoneUntilOne ==
    delta # NotCalled =>
        IF Len(stamps) = 0 THEN delta[1] = None
        ELSE IF Len(stamps) = 1 THEN delta[1] = Some(0)
        ELSE delta[1] = Some(stamps[Len(stamps)] - stamps[Len(stamps) - 1])

\* time_delta() called after three push_time calls at distinct times
C11_Witness ==
    /\ delta # NotCalled
    /\ Len(stamps) = 3
    /\ stamps[1] < stamps[2] /\ stamps[2] < stamps[3]
    /\ delta[1] = Some(stamps[3] - stamps[2])

\* ------------------------------------------------ SpecScale: the scale closure
\* the rows of the spec's formula
\*   y = high_row - (high_row - low_row) * (x - t_low) / (t_high - t_low)
\* read off line 263: high_row is 31.0 and high_row - low_row is 30.0
HighRow == 31
RowSpan == 30
LowRow == HighRow - RowSpan

ScaleBounds == {1995, 2000, 2007, 2500}
ScaleTemps == (1993..2012) \cup {2500, 3000}

\* the closure evaluated on two temperatures under the same bounds
ApplyScale ==
    /\ sc # NotApplied
    /\ sc.rows = <<>>
    /\ sc' = [sc EXCEPT !.rows = <<scale(sc.x1, sc.t_low, sc.t_high),
                                   scale(sc.x2, sc.t_low, sc.t_high)>>]
    /\ UNCHANGED <<libVars, stateVars, localVars, mainVars, times, now, stamps, delta>>

InitScale ==
    /\ LibInit(1, 1)
    /\ ProgInit
    /\ \E lo \in ScaleBounds, hi \in ScaleBounds, x1 \in ScaleTemps, x2 \in ScaleTemps :
          /\ lo < hi
          /\ sc = [t_low |-> lo, t_high |-> hi, x1 |-> x1, x2 |-> x2, rows |-> <<>>]

NextScale == ApplyScale

SpecScale == InitScale /\ [][NextScale]_vars

ScaleMonotone ==
    sc.x1 <= sc.x2 => sc.rows[1] >= sc.rows[2]

C20_RowsOnDisplay ==
    BetweenPushes =>
        \A i \in 1..past_points.size :
            /\ LowRow <= as_slice(past_points)[i].y
            /\ as_slice(past_points)[i].y <= HighRow

====
